---------------------------- MODULE Spec2Model ----------------------------
(***************************************************************************)
(* A model of wmts_to_geotiff.py: one run of main(), from the fetch of the *)
(* WMTS capabilities to the process exit.  Text (layer names, SRS codes,   *)
(* image formats, file names, paths) is a sequence of one-character        *)
(* strings, so that concatenation, replace, split and endswith are         *)
(* computed as Python computes them.  Calls into libraries (owslib,        *)
(* mapproxy, rasterio, the file system) either return or raise.            *)
(***************************************************************************)
EXTENDS Naturals, Integers, Sequences, FiniteSets, TLC

VARIABLES
    pc,               \* position of main() in its body; "exited" once the process is gone
    layer_name,       \* -l
    zoom_level,       \* -z
    srs,              \* -s
    wmts,             \* what WebMapTileService(wmts_url) answered, None before
    config_file,      \* the document at --mapproxy-config, None while this run has not written it
    seed_conf,        \* the loaded configuration object, None before
    grid_key,         \* the key of seed_conf.caches the grid was looked up with, Null before
    seed_config,      \* the seed directive, None before
    cache_data,       \* TRUE once os.makedirs("cache_data") returned
    seed_calls,       \* how often seed() was entered
    seeded,           \* the files seed() wrote in this run
    fs,               \* directories under cache_data/: path -> listing in walk order
    input_file_list,  \* the collected tile files, empty before the walk
    meta,             \* the profile read from the first tile, None before
    mosaic,           \* the output raster: state, profile, pixel blocks by window
    file_i,           \* index in input_file_list of the tile the loop is at
    windows,          \* the block windows of the open tile that are still to be written
    opened,           \* the tile files opened so far, in order, one entry per open
    log,              \* the logging records, in order
    exit_status,      \* Null while running, then the process exit status
    raised,           \* the stage whose call raised, Null if none did
    handled           \* TRUE once the except clause of main() ran

vars == << pc, layer_name, zoom_level, srs, wmts, config_file, seed_conf, grid_key,
           seed_config, cache_data, seed_calls, seeded, fs, input_file_list, meta,
           mosaic, file_i, windows, opened, log, exit_status, raised, handled >>

\* a name main() has not bound yet: Null where the value will be text or a number,
\* None where it will be a record
Null == "null"

None == [none |-> TRUE]

------------------------------------------------------------------------------
(* Bounds of the model *)

MaxZoom == 2        \* zoom_level ranges over 0..MaxZoom
MaxRes == 3         \* a tile matrix set has at most MaxRes resolutions
MaxTiles == 2       \* a cache directory lists at most MaxTiles files
MaxBlocks == 2      \* a reprojected tile has at most MaxBlocks block windows

------------------------------------------------------------------------------
(* Text *)

Last(s) == s[Len(s)]

\* str.replace(old, '') for a one-character old
Replace(s, old) == SelectSeq(s, LAMBDA c : c # old)

RECURSIVE SplitFrom(_, _, _, _)
SplitFrom(s, sep, i, cur) ==
    IF i > Len(s) THEN << cur >>
    ELSE IF s[i] = sep THEN << cur >> \o SplitFrom(s, sep, i + 1, << >>)
    ELSE SplitFrom(s, sep, i + 1, Append(cur, s[i]))

\* str.split(sep) for a one-character sep
Split(s, sep) == SplitFrom(s, sep, 1, << >>)

\* a test that accepts every name
EndsWithAny(s, suffix) == TRUE

\* str.endswith(suffix)
EndsWith(s, suffix) ==
    /\ Len(suffix) <= Len(s)
    /\ SubSeq(s, Len(s) - Len(suffix) + 1, Len(s)) = suffix

Digit(d) == CASE d = 0 -> "0" [] d = 1 -> "1" [] d = 2 -> "2" [] d = 3 -> "3"
              [] d = 4 -> "4" [] d = 5 -> "5" [] d = 6 -> "6" [] d = 7 -> "7"
              [] d = 8 -> "8" [] d = 9 -> "9"

RECURSIVE Str(_)
\* str(n) of a non-negative number
Str(n) == IF n < 10 THEN << Digit(n) >> ELSE Append(Str(n \div 10), Digit(n % 10))

DigitValue(c) == CHOOSE d \in 0..9 : Digit(d) = c

RECURSIVE ParseNumber(_)
\* the scalar yaml makes of a run of digits
ParseNumber(s) ==
    IF Len(s) = 1 THEN DigitValue(s[1])
    ELSE 10 * ParseNumber(SubSeq(s, 1, Len(s) - 1)) + DigitValue(Last(s))

RECURSIVE Join(_, _)
\* sep.join(items), as the sequence of the lines sep starts
Join(items, lead) ==
    IF items = << >> THEN << >>
    ELSE << lead \o items[1] >> \o Join(Tail(items), lead)

------------------------------------------------------------------------------
(* Inputs *)

LayerNames == { << "o", "s", "m" >>, << "d", "e", "m" >> }

SrsCodes == { << "E", "P", "S", "G", ":", "3", "8", "5", "7" >>,
              << "E", "P", "S", "G", ":", "4", "3", "2", "6" >> }

\* what a service advertises: all the layers but one
Contents == { LayerNames \ {l} : l \in LayerNames }

Formats == { << "i", "m", "a", "g", "e", "/", "p", "n", "g" >>,
             << "i", "m", "a", "g", "e", "/", "j", "p", "e", "g" >> }

Extensions == { << "p", "n", "g" >>, << "j", "p", "e", "g" >> }

\* the resolution of level i (0-based): each level halves the one before
Resolution(i) == 2 ^ (MaxRes + 3 - i)

ResolutionLists == { [i \in 1..n |-> Resolution(i - 1)] : n \in 0..MaxRes }

\* a file of a cache directory: its name and the number of block windows its
\* reprojected view has (one, or as many as a view can have)
FileName(k, ext) == Str(k) \o << "." >> \o ext

Listings ==
    UNION { { [k \in 1..n |-> [name |-> FileName(k, e[k]), blocks |-> b[k]]] :
                e \in [1..n -> Extensions], b \in [1..n -> {1, MaxBlocks}] } :
            n \in 0..MaxTiles }

------------------------------------------------------------------------------
(* Pure parts of main() *)

Min(a, b) == IF a < b THEN a ELSE b

Max(a, b) == IF a > b THEN a ELSE b

\* s[:stop]
SliceTo(s, stop) ==
    SubSeq(s, 1, IF stop < 0 THEN Max(0, Len(s) + stop) ELSE Min(stop, Len(s)))

\* the slice that stops one level short: resolutions[:zoom_level]
TruncatedBelow(resolutions, zoom) == SliceTo(resolutions, zoom)

\* wmts_tile_matrix_set_obj.resolutions[:zoom_level + 1]
Truncated(resolutions, zoom) == SliceTo(resolutions, zoom + 1)

ItemLead == << " ", " ", " ", " ", " ", " ", "-", " " >>

\* '      - ' + '\n      - '.join(str(res) for res in ...), as its lines
ResolutionsStr(resolutions, zoom) ==
    LET items == [i \in 1..Len(Truncated(resolutions, zoom)) |->
                      Str(Truncated(resolutions, zoom)[i])]
    IN  IF items = << >> THEN << ItemLead >> ELSE Join(items, ItemLead)

CacheSuffix == << "_", "c", "a", "c", "h", "e" >>

SourceSuffix == << "_", "s", "o", "u", "r", "c", "e" >>

\* wmts_layer.formats[0].split('/')[-1]
FormatExtension(format) == Last(Split(format, "/"))

\* mapproxy_config_template.format(...): the sections of the document
ConfigData(layer, w, zoom, s) ==
    [ layers  |-> << [name |-> layer, sources |-> << layer \o CacheSuffix >>] >>,
      caches  |-> << [name |-> layer \o CacheSuffix,
                      grids |-> << w.tms_title >>,
                      sources |-> << layer \o SourceSuffix >>] >>,
      sources |-> << [name |-> layer \o SourceSuffix,
                      grid |-> w.tms_title,
                      extension |-> FormatExtension(w.format),
                      wmts_layer |-> layer,
                      coverage_srs |-> s] >>,
      grids   |-> << [name |-> w.tms_title,
                      srs |-> s,
                      origin |-> "ul",
                      resolutions |-> ResolutionsStr(w.resolutions, zoom)] >> ]

\* the value yaml.load makes of one "      - <scalar>" line
LoadItem(line) ==
    IF Len(line) = Len(ItemLead) THEN Null
    ELSE ParseNumber(SubSeq(line, Len(ItemLead) + 1, Len(line)))

\* yaml.load and ProxyConfiguration(config, seed=True, ...): the loaded caches and grids
Loaded(doc) ==
    [ caches |-> { doc.caches[i].name : i \in 1..Len(doc.caches) },
      grids  |-> [i \in 1..Len(doc.grids) |->
                     [name |-> doc.grids[i].name,
                      srs |-> doc.grids[i].srs,
                      resolutions |-> [j \in 1..Len(doc.grids[i].resolutions) |->
                                          LoadItem(doc.grids[i].resolutions[j])]]],
      coverage |-> None ]

\* task = (layer_name, srs, zoom_level, False)
Task(layer, s, zoom) == << layer, s, zoom, FALSE >>

\* coverage_information
CoverageInformation(task) ==
    [ cache_name |-> task[1], srs |-> task[2], min_level |-> task[3],
      max_level |-> task[3], dry_run |-> task[4] ]

\* seed_config
SeedConfig(layer) == [ seed_only |-> << [cache_name |-> layer] >>, concurrency |-> 1 ]

CacheDir == << "c", "a", "c", "h", "e", "_", "d", "a", "t", "a" >>

\* f"cache_data/{layer_name}_cache_{srs.replace(':', '')}/{zoom_level}"
SourcePath(layer, s, zoom) ==
    CacheDir \o << "/" >> \o layer \o << "_", "c", "a", "c", "h", "e", "_" >>
        \o Replace(s, ":") \o << "/" >> \o Str(zoom)

\* the files of a listing whose name ends with ".<extension>", in listing order
Collect(listing, extension) ==
    SelectSeq(listing, LAMBDA f : EndsWith(f.name, << "." >> \o extension))

\* src.meta.copy(): the profile of a tile
Profile(file) == [ blocks |-> file.blocks ]

\* vrt.block_windows(): the windows of the reprojected view, in its own pixel grid
BlockWindows(file) == [ w \in 1..file.blocks |-> w ]

\* vrt.read(window=window): the reprojected block of a tile
Block(file, window) == << file.name, window >>

\* a write that leaves a window alone once it holds a block
WriteKeepFirst(px, window, block) ==
    IF window \in DOMAIN px THEN px
    ELSE [w \in DOMAIN px \cup {window} |-> IF w = window THEN block ELSE px[w]]

\* mosaic.write(src_array, window=window)
Write(px, window, block) ==
    [ w \in DOMAIN px \cup {window} |-> IF w = window THEN block ELSE px[w] ]

\* a membership test that never fails
LayerAlwaysKnown(layer, contents) == TRUE

\* layer_name in wmts.contents
LayerKnown(layer, contents) == layer \in contents

\* a bare except clause, which catches SystemExit too
CatchesAll(kind) == TRUE

\* except Exception: what the clause catches
Catches(kind) == kind = "Exception"

------------------------------------------------------------------------------
(* The run *)

NoFiles == [p \in {} |-> << >>]

NoPixels == [w \in {} |-> << >>]

cli == << layer_name, zoom_level, srs >>

conf == << config_file, seed_conf, grid_key, seed_config >>

disk == << cache_data, seed_calls, seeded, fs >>

raster == << input_file_list, meta, mosaic, file_i, windows, opened >>

Init ==
    /\ pc = "fetch"
    /\ layer_name \in LayerNames
    /\ zoom_level \in 0..MaxZoom
    /\ srs \in SrsCodes
    /\ wmts = None
    /\ config_file = None
    /\ seed_conf = None
    /\ grid_key = Null
    /\ seed_config = None
    /\ cache_data = FALSE
    /\ seed_calls = 0
    /\ seeded = << >>
    \* what earlier runs left in the directory this run will read
    /\ fs \in {NoFiles}
          \cup { [p \in {SourcePath(layer_name, srs, zoom_level)} |-> l] : l \in Listings }
    /\ input_file_list = << >>
    /\ meta = None
    /\ mosaic = [state |-> "absent", profile |-> None, px |-> NoPixels]
    /\ file_i = 1
    /\ windows = << >>
    /\ opened = << >>
    /\ log = << >>
    /\ exit_status = Null
    /\ raised = Null
    /\ handled = FALSE

\* an exception outside the try statement: the interpreter prints the traceback
\* and the process exits with status 1
Uncaught(stage) ==
    /\ pc' = "exited"
    /\ exit_status' = 1
    /\ raised' = stage
    /\ UNCHANGED << log, handled >>

\* an except clause that logs and falls off the end of main()
HandleAndReturn(stage) ==
    /\ log' = Append(log, [level |-> "ERROR", msg |-> "Error during process", arg |-> stage])
    /\ handled' = TRUE
    /\ pc' = "exited"
    /\ exit_status' = 0

\* the except clause: logging.error(f"Error during process: {str(e)}"); sys.exit(1)
Handle(stage) ==
    /\ log' = Append(log, [level |-> "ERROR", msg |-> "Error during process", arg |-> stage])
    /\ handled' = TRUE
    /\ pc' = "exited"
    /\ exit_status' = 1

\* an exception of a library call inside the try statement
Caught(stage) ==
    /\ raised' = stage
    /\ IF Catches("Exception")
       THEN Handle(stage)
       ELSE /\ pc' = "exited"
            /\ exit_status' = 1
            /\ UNCHANGED << log, handled >>

\* wmts = WebMapTileService(wmts_url)
Fetch ==
    /\ pc = "fetch"
    /\ \/ /\ \E c \in Contents, r \in ResolutionLists, f \in Formats :
               wmts' = [contents |-> c, resolutions |-> r, format |-> f,
                        tms_title |-> << "g" >>]
          /\ pc' = "check_layer"
          /\ UNCHANGED << log, exit_status, raised, handled >>
       \/ /\ Uncaught("fetch")
          /\ UNCHANGED wmts
    /\ UNCHANGED << cli, conf, disk, raster >>

\* if layer_name not in wmts.contents: logging.error(...); sys.exit(1)
CheckLayer ==
    /\ pc = "check_layer"
    /\ IF LayerKnown(layer_name, wmts.contents)
       THEN /\ pc' = "template"
            /\ UNCHANGED << log, exit_status >>
       ELSE /\ log' = Append(log, [level |-> "ERROR", msg |-> "Layer not found",
                                   arg |-> layer_name])
            /\ pc' = "exited"
            /\ exit_status' = 1
    /\ UNCHANGED << cli, wmts, conf, disk, raster, raised, handled >>

\* the layer's tile matrix set and the rendering of the template
Template ==
    /\ pc = "template"
    /\ \/ /\ pc' = "write_config"
          /\ UNCHANGED << log, exit_status, raised, handled >>
       \/ Uncaught("template")
    /\ UNCHANGED << cli, wmts, conf, disk, raster >>

\* with open(mapproxy_config, 'w') as f: f.write(mapproxy_config_data)
WriteConfig ==
    /\ pc = "write_config"
    /\ \/ /\ config_file' = ConfigData(layer_name, wmts, zoom_level, srs)
          /\ pc' = "load_config"
          /\ UNCHANGED << log, exit_status, raised, handled >>
       \/ /\ Uncaught("write_config")
          /\ UNCHANGED config_file
    /\ UNCHANGED << cli, wmts, seed_conf, grid_key, seed_config, disk, raster >>

\* yaml.load, ProxyConfiguration(...), configuration.seed_conf
LoadConfig ==
    /\ pc = "load_config"
    /\ \/ /\ seed_conf' = Loaded(config_file)
          /\ pc' = "restrict"
          /\ UNCHANGED << log, exit_status, raised, handled >>
       \/ /\ Uncaught("load_config")
          /\ UNCHANGED seed_conf
    /\ UNCHANGED << cli, wmts, config_file, grid_key, seed_config, disk, raster >>

\* the grid of seed_conf.caches[layer_name], the coverage, the seed directive
Restrict ==
    /\ pc = "restrict"
    /\ \/ /\ grid_key' = layer_name
          /\ seed_conf' = [seed_conf EXCEPT !.coverage =
                              CoverageInformation(Task(layer_name, srs, zoom_level))]
          /\ seed_config' = SeedConfig(layer_name)
          /\ pc' = "makedirs"
          /\ UNCHANGED << log, exit_status, raised, handled >>
       \/ /\ Uncaught("restrict")
          /\ grid_key' = layer_name
          /\ UNCHANGED << seed_conf, seed_config >>
    /\ UNCHANGED << cli, wmts, config_file, disk, raster >>

\* os.makedirs("cache_data", exist_ok=True)
MakeDirs ==
    /\ pc = "makedirs"
    /\ \/ /\ cache_data' = TRUE
          /\ pc' = "seed"
          /\ UNCHANGED << log, exit_status, raised, handled >>
       \/ /\ Caught("makedirs")
          /\ UNCHANGED cache_data
    /\ UNCHANGED << cli, wmts, conf, seed_calls, seeded, fs, raster >>

\* the directory the seeding engine keeps the tiles of a cache in: keyed by the
\* cache name, the SRS without its colon, and the level
EnginePath(cache_name, s, zoom) ==
    CacheDir \o << "/" >> \o cache_name \o << "_" >> \o Replace(s, ":")
        \o << "/" >> \o Str(zoom)

\* the directory seed() writes to for the cache the seed directive names
SeedPath == EnginePath(seed_config.seed_only[1].cache_name, srs, zoom_level)

\* the listing of a directory, empty when there is none
Listing(path) == IF path \in DOMAIN fs THEN fs[path] ELSE << >>

\* seed(seed_config, seed_conf)
Seed ==
    /\ pc = "seed"
    /\ seed_calls' = seed_calls + 1
    /\ \/ /\ \E n \in 0..MaxTiles :
               LET new == [k \in 1..n |->
                              [name |-> FileName(Len(Listing(SeedPath)) + k,
                                                 config_file.sources[1].extension),
                               blocks |-> 1]]
               IN  /\ seeded' = new
                   /\ fs' = IF n = 0 THEN fs
                            ELSE [p \in DOMAIN fs \cup {SeedPath} |->
                                     IF p = SeedPath THEN Listing(SeedPath) \o new
                                     ELSE fs[p]]
          /\ pc' = "check_dir"
          /\ UNCHANGED << log, exit_status, raised, handled >>
       \/ /\ Caught("seed")
          /\ UNCHANGED << seeded, fs >>
    /\ UNCHANGED << cli, wmts, conf, cache_data, raster >>

\* if not os.path.isdir(source_path): logging.error(...); sys.exit(1)
CheckDir ==
    /\ pc = "check_dir"
    /\ IF SourcePath(layer_name, srs, zoom_level) \in DOMAIN fs
       THEN /\ pc' = "walk"
            /\ UNCHANGED << log, exit_status, handled >>
       ELSE IF Catches("SystemExit")
       THEN /\ log' = log \o
                  << [level |-> "ERROR", msg |-> "No data found",
                      arg |-> << layer_name, zoom_level >>],
                     [level |-> "ERROR", msg |-> "Error during process",
                      arg |-> "check_dir"] >>
            /\ handled' = TRUE
            /\ pc' = "exited"
            /\ exit_status' = 1
       ELSE /\ log' = Append(log, [level |-> "ERROR", msg |-> "No data found",
                                   arg |-> << layer_name, zoom_level >>])
            /\ pc' = "exited"
            /\ exit_status' = 1
            /\ UNCHANGED handled
    /\ UNCHANGED << cli, wmts, conf, disk, raster, raised >>

\* for root, dirs, files in os.walk(source_path): ... input_file_list.append(...)
Walk ==
    /\ pc = "walk"
    /\ input_file_list' = Collect(fs[SourcePath(layer_name, srs, zoom_level)],
                                  FormatExtension(wmts.format))
    /\ pc' = "open_first"
    /\ UNCHANGED << cli, wmts, conf, disk, meta, mosaic, file_i, windows, opened,
                    log, exit_status, raised, handled >>

\* with rasterio.open(input_file_list[0]) as src: meta = src.meta.copy()
OpenFirst ==
    /\ pc = "open_first"
    /\ \/ /\ input_file_list # << >>
          /\ meta' = Profile(input_file_list[1])
          /\ opened' = Append(opened, input_file_list[1].name)
          /\ pc' = "create_output"
          /\ UNCHANGED << log, exit_status, raised, handled >>
       \/ /\ Caught("open_first")
          /\ UNCHANGED << meta, opened >>
    /\ UNCHANGED << cli, wmts, conf, disk, input_file_list, mosaic, file_i, windows >>

\* with rasterio.open(output, 'w', **meta) as mosaic:
CreateOutput ==
    /\ pc = "create_output"
    /\ \/ /\ mosaic' = [state |-> "open", profile |-> meta, px |-> NoPixels]
          /\ pc' = "next_file"
          /\ UNCHANGED << log, exit_status, raised, handled >>
       \/ /\ Caught("create_output")
          /\ UNCHANGED mosaic
    /\ UNCHANGED << cli, wmts, conf, disk, input_file_list, meta, file_i, windows, opened >>

\* for input_file in input_file_list: rasterio.open, WarpedVRT, block_windows;
\* after the last file the with statement closes the output
NextFile ==
    /\ pc = "next_file"
    /\ \/ /\ file_i > Len(input_file_list)
          /\ mosaic' = [mosaic EXCEPT !.state = "closed"]
          /\ pc' = "log_success"
          /\ UNCHANGED << windows, opened, log, exit_status, raised, handled >>
       \/ /\ file_i <= Len(input_file_list)
          /\ windows' = BlockWindows(input_file_list[file_i])
          /\ opened' = Append(opened, input_file_list[file_i].name)
          /\ pc' = "write"
          /\ UNCHANGED << mosaic, log, exit_status, raised, handled >>
       \/ /\ file_i <= Len(input_file_list)
          /\ Caught("open_tile")
          /\ mosaic' = [mosaic EXCEPT !.state = "closed"]
          /\ UNCHANGED << windows, opened >>
    /\ UNCHANGED << cli, wmts, conf, disk, input_file_list, meta, file_i >>

\* src_array = vrt.read(window=window); mosaic.write(src_array, window=window)
WriteWindow ==
    /\ pc = "write"
    /\ \/ /\ mosaic' = [mosaic EXCEPT !.px =
                           Write(mosaic.px, Head(windows),
                                 Block(input_file_list[file_i], Head(windows)))]
          /\ windows' = Tail(windows)
          /\ IF Tail(windows) = << >>
             THEN file_i' = file_i + 1 /\ pc' = "next_file"
             ELSE UNCHANGED << file_i, pc >>
          /\ UNCHANGED << log, exit_status, raised, handled >>
       \/ /\ Caught("write")
          /\ mosaic' = [mosaic EXCEPT !.state = "closed"]
          /\ UNCHANGED << windows, file_i >>
    /\ UNCHANGED << cli, wmts, conf, disk, input_file_list, meta, opened >>

\* logging.info(f"GeoTIFF generated successfully. Output: {output}"); main returns
LogSuccess ==
    /\ pc = "log_success"
    /\ log' = Append(log, [level |-> "INFO", msg |-> "GeoTIFF generated successfully",
                           arg |-> "output"])
    /\ pc' = "exited"
    /\ exit_status' = 0
    /\ UNCHANGED << cli, wmts, conf, disk, raster, raised, handled >>

Next ==
    \/ Fetch
    \/ CheckLayer
    \/ Template
    \/ WriteConfig
    \/ LoadConfig
    \/ Restrict
    \/ MakeDirs
    \/ Seed
    \/ CheckDir
    \/ Walk
    \/ OpenFirst
    \/ CreateOutput
    \/ NextFile
    \/ WriteWindow
    \/ LogSuccess

Spec == Init /\ [][Next]_vars

------------------------------------------------------------------------------
(* Properties *)

Exited == pc = "exited"

Logged(msg) == \E i \in 1..Len(log) : log[i].msg = msg

ThePath == SourcePath(layer_name, srs, zoom_level)

\* seed() was called and returned
SeedReturned == seed_calls = 1 /\ raised # "seed"

\* C1: an exception raised in any stage of the pipeline is caught by the one
\* top-level handler, logged as an error with its message, and the process
\* exits with status 1.
C1_EveryExceptionHandled ==
    raised # Null =>
        /\ handled
        /\ Exited /\ exit_status = 1
        /\ \E i \in 1..Len(log) :
               log[i] = [level |-> "ERROR", msg |-> "Error during process", arg |-> raised]

\* C2: when the requested layer is not among the service's contents, the run logs
\* an error naming the layer and exits with status 1 before any file I/O: no config
\* file written, no cache_data/ created, no seeding, no raster opened.
C2_LayerNotFound ==
    (wmts # None /\ layer_name \notin wmts.contents) =>
        /\ pc \in {"check_layer", "exited"}
        /\ config_file = None
        /\ ~cache_data
        /\ seed_calls = 0
        /\ opened = << >>
        /\ mosaic.state = "absent"
        /\ Exited =>
              /\ exit_status = 1
              /\ log = << [level |-> "ERROR", msg |-> "Layer not found",
                           arg |-> layer_name] >>

C2_Witness ==
    /\ Exited
    /\ wmts # None
    /\ layer_name \notin wmts.contents
    /\ exit_status = 1

\* C3: when the cache directory does not exist after seed() returned, the run logs
\* "No data found" with the layer and the zoom level and exits with status 1; no
\* tile raster is opened, no output raster created, and the except clause does not
\* run or log.
C3_NoData ==
    (SeedReturned /\ ThePath \notin DOMAIN fs /\ Exited) =>
        /\ exit_status = 1
        /\ Last(log) = [level |-> "ERROR", msg |-> "No data found",
                        arg |-> << layer_name, zoom_level >>]
        /\ opened = << >>
        /\ mosaic.state = "absent"
        /\ ~handled
        /\ ~Logged("Error during process")

C3_Witness ==
    /\ SeedReturned
    /\ ThePath \notin DOMAIN fs
    /\ Exited
    /\ Logged("No data found")

\* C4: with resolutions r[0..n-1] and 0 <= zoom_level < n, the resolution list of
\* the written config is r[0], ..., r[zoom_level], in order, and loads back as such.
C4_ResolutionTruncation ==
    (config_file # None /\ zoom_level < Len(wmts.resolutions)) =>
        LET lines == config_file.grids[1].resolutions
        IN  /\ Len(lines) = zoom_level + 1
            /\ \A i \in 1..(zoom_level + 1) :
                   lines[i] = ItemLead \o Str(wmts.resolutions[i])
            /\ seed_conf # None =>
                   seed_conf.grids[1].resolutions
                       = [i \in 1..(zoom_level + 1) |-> wmts.resolutions[i]]

C4_Witness ==
    /\ seed_conf # None
    /\ Len(wmts.resolutions) = MaxRes
    /\ zoom_level + 2 = MaxRes
    /\ Len(config_file.grids[1].resolutions) = zoom_level + 1

\* C5: the cache the seed directive names, the cache name on the restricted
\* coverage, and the key the grid is looked up with are all the name of the one
\* cache the written config defines.
C5_CacheNameConsistency ==
    seed_config # None =>
        /\ Len(config_file.caches) = 1
        /\ seed_config.seed_only[1].cache_name = config_file.caches[1].name
        /\ seed_conf.coverage.cache_name = config_file.caches[1].name
        /\ grid_key = config_file.caches[1].name

\* the window of the output raster that block w of the k-th collected tile covers,
\* the tiles lying side by side
TileWindow(k, w) == (k - 1) * MaxBlocks + w

\* C6: after a successful run every collected tile's reprojected blocks are in the
\* output raster at that tile's own windows, and the output's profile is the first
\* tile's.
C6_MosaicComplete ==
    (Exited /\ exit_status = 0) =>
        /\ mosaic.profile = Profile(input_file_list[1])
        /\ \A k \in 1..Len(input_file_list) :
               \A w \in 1..input_file_list[k].blocks :
                   /\ TileWindow(k, w) \in DOMAIN mosaic.px
                   /\ mosaic.px[TileWindow(k, w)] = Block(input_file_list[k], w)

\* the tiles among the first n collected that have block window w
Writers(n, w) == { k \in 1..n : w <= input_file_list[k].blocks }

MaxOf(S) == CHOOSE k \in S : \A j \in S : j <= k

\* C7: the collected tiles are processed once each, in the order collected, and a
\* window written by several tiles holds the block of the one processed last.
C7_OverwriteOnOverlap ==
    pc \in {"next_file", "log_success"} \/ (Exited /\ exit_status = 0) =>
        /\ Tail(opened) = [k \in 1..(file_i - 1) |-> input_file_list[k].name]
        /\ DOMAIN mosaic.px = { w \in 1..MaxBlocks : Writers(file_i - 1, w) # {} }
        /\ \A w \in DOMAIN mosaic.px :
               mosaic.px[w] = Block(input_file_list[MaxOf(Writers(file_i - 1, w))], w)
        /\ pc # "next_file" => file_i = Len(input_file_list) + 1

C7_Witness ==
    /\ Exited /\ exit_status = 0
    /\ Len(input_file_list) = 2
    /\ input_file_list[1].blocks = MaxBlocks
    /\ input_file_list[2].blocks = 1
    /\ mosaic.px[1] = Block(input_file_list[2], 1)
    /\ mosaic.px[MaxBlocks] = Block(input_file_list[1], MaxBlocks)

\* C8: a run ends with status 0 and the success message, after every window of
\* every collected tile was written and the output raster closed, or with status
\* 1; the success message is never logged on a run that exits non-zero.
C8_SuccessOrNonzero ==
    /\ Exited => exit_status \in {0, 1}
    /\ (Exited /\ exit_status = 0) =>
           /\ Logged("GeoTIFF generated successfully")
           /\ mosaic.state = "closed"
           /\ \A k \in 1..Len(input_file_list) :
                  \A w \in 1..input_file_list[k].blocks : w \in DOMAIN mosaic.px
           /\ Tail(opened) = [k \in 1..Len(input_file_list) |-> input_file_list[k].name]
    /\ Logged("GeoTIFF generated successfully") => (Exited /\ exit_status = 0)

C8_Witness ==
    /\ Exited /\ exit_status = 0
    /\ Logged("GeoTIFF generated successfully")
    /\ Len(input_file_list) = MaxTiles
    /\ mosaic.state = "closed"

\* name ends with ".<extension>"
HasExtension(name, extension) ==
    \E n \in 0..Len(name) : name = SubSeq(name, 1, n) \o << "." >> \o extension

\* C9: when the cache directory exists after seeding and holds no file whose name
\* ends with the expected extension, the run exits with status 1 and never creates
\* the output raster.
C9_EmptyCacheDirectory ==
    (SeedReturned /\ ThePath \in DOMAIN fs
        /\ \A i \in 1..Len(fs[ThePath]) :
               ~HasExtension(fs[ThePath][i].name, Last(Split(wmts.format, "/")))) =>
        /\ mosaic.state = "absent"
        /\ pc \in {"check_dir", "walk", "open_first", "exited"}
        /\ Exited => exit_status = 1

C9_Witness ==
    /\ Exited
    /\ SeedReturned
    /\ ThePath \in DOMAIN fs
    /\ fs[ThePath] # << >>
    /\ pc # "walk"
    /\ input_file_list = << >>
    /\ raised = "open_first"
    /\ exit_status = 1

\* C10: the directory checked and walked is the directory seed() writes the tiles
\* of the cache named in the seed directive to, so a run whose seeding wrote a tile
\* does not take the no-data exit.
C10_SeedReadPathAgreement ==
    seed_config # None =>
        /\ ThePath = SeedPath
        /\ (SeedReturned /\ seeded # << >>) => ~Logged("No data found")

==============================================================================
